---------------------------- MODULE Spec2Model ----------------------------
(***************************************************************************)
(* Model of the webhook ingestion service: signed webhook acceptance       *)
(* (app/main.py), the SQLite-backed message store (app/storage.py,         *)
(* app/models.py), payload validation (app/schemas.py) and the in-process  *)
(* metrics collector (app/metrics.py).                                     *)
(*                                                                         *)
(* Strings are sequences of code units (ASCII numbers), so that SQLite's   *)
(* binary text comparison and Python's string operations are computed, not *)
(* assumed.  A timestamp's date-and-time part "YYYY-MM-DDTHH:MM:SS" is     *)
(* abbreviated to a single digit and a UTC offset "+HH:MM" to "+H".        *)
(***************************************************************************)
EXTENDS Integers, Sequences, FiniteSets, TLC

\* Number of HTTP requests served in one run.
NReq == 2

\* The number of threads that call the metrics collector at once.
NThr == 2

(***************************************************************************)
(* Strings                                                                 *)
(***************************************************************************)

\* Python None / SQL NULL / an absent JSON member or header: not a string.
NULL == <<-1>>

\* A test for None alone: the empty string counts as a value.
IsNotNone(s) == s # NULL

\* Python truthiness of an Optional[str]: None and "" are falsy.
Truthy(s) == s # NULL /\ s # <<>>

RECURSIVE LexLess(_, _)
\* Binary (memcmp) comparison of two TEXT values, as SQLite's default
\* collation orders them: a proper prefix sorts first.
LexLess(a, b) ==
    IF b = <<>> THEN FALSE
    ELSE IF a = <<>> THEN TRUE
    ELSE IF Head(a) # Head(b) THEN Head(a) < Head(b)
    ELSE LexLess(Tail(a), Tail(b))

\* str.lower() on ASCII code units.
Lower(s) == [i \in 1..Len(s) |-> IF s[i] \in 65..90 THEN s[i] + 32 ELSE s[i]]

\* Python's  needle in hay  for strings.
Contains(hay, needle) ==
    \E i \in 0..(Len(hay) - Len(needle)) :
        \A j \in 1..Len(needle) : hay[i + j] = needle[j]

(***************************************************************************)
(* Payload validation (WebhookMessage)                                     *)
(***************************************************************************)

\* Longest text a payload may carry.
MaxTextLen == 4096

\* message_id: a non-empty string.
ValidMessageId(s) == s # NULL /\ Len(s) >= 1

\* from / to: "+" followed by one or more digits.
IsE164(s) ==
    /\ s # NULL
    /\ Len(s) >= 2
    /\ s[1] = 43
    /\ \A i \in 2..Len(s) : s[i] \in 48..57

\* The UTC offsets a timestamp may carry: none (naive), "Z", "+0" (for
\* "+00:00") and "+5" (for "+05:00").
TsSuffixes == {<<>>, <<90>>, <<43, 48>>, <<43, 53>>}

\* Whether the string parses as an ISO-8601 date-time.
TsParses(s) ==
    /\ s # NULL
    /\ Len(s) >= 1
    /\ s[1] \in 48..57
    /\ SubSeq(s, 2, Len(s)) \in TsSuffixes

\* The parsed datetime: its clock reading and its tzinfo ("Z" is UTC).
ParseTs(s) ==
    [clock |-> s[1],
     tz |-> LET suf == SubSeq(s, 2, Len(s))
            IN IF suf = <<>> THEN "naive"
               ELSE IF suf = <<43, 53>> THEN "plus5" ELSE "utc"]

\* datetime.isoformat(): a UTC datetime prints with the offset "+00:00".
IsoFormat(dt) ==
    <<dt.clock>> \o (IF dt.tz = "naive" THEN <<>>
                     ELSE IF dt.tz = "plus5" THEN <<43, 53>> ELSE <<43, 48>>)

\* str.replace("+00:00", "Z") on an isoformat() result.
ReplaceUtcOffset(s) ==
    IF Len(s) >= 3 /\ SubSeq(s, Len(s) - 1, Len(s)) = <<43, 48>>
    THEN SubSeq(s, 1, Len(s) - 2) \o <<90>>
    ELSE s

\* text: optional, at most MaxTextLen characters.
ValidText(s) == s = NULL \/ Len(s) <= MaxTextLen

\* WebhookMessage.parse_raw succeeds: the body is JSON and every field passes.
Validates(b) ==
    /\ b.json
    /\ ValidMessageId(b.message_id)
    /\ IsE164(b.from)
    /\ IsE164(b.to)
    /\ TsParses(b.ts)
    /\ ValidText(b.text)


(***************************************************************************)
(* Inputs                                                                  *)
(***************************************************************************)

\* The raw request bodies a client sends, as the JSON object they encode
\* (json = FALSE: the bytes are not JSON).  Strings: "m1" = <<109, 49>>,
\* "+1" = <<43, 49>>, "1Z" = <<49, 90>>, "Hi" = <<72, 105>>, "hi!" =
\* <<104, 105, 33>>.  Bodies 1 and 2 carry the same message_id with
\* different fields; body 3 is stored with the timestamp of body 1; bodies
\* 4 to 6 do not validate.
Bodies ==
    << [json |-> TRUE, message_id |-> <<109, 49>>, from |-> <<43, 49>>,
        to |-> <<43, 57>>, ts |-> <<49, 90>>, text |-> <<72, 105>>],
       [json |-> TRUE, message_id |-> <<109, 49>>, from |-> <<43, 50>>,
        to |-> <<43, 57>>, ts |-> <<50, 90>>, text |-> NULL],
       [json |-> TRUE, message_id |-> <<109, 50>>, from |-> <<43, 49>>,
        to |-> <<43, 57>>, ts |-> <<49, 43, 48>>, text |-> <<104, 105, 33>>],
       [json |-> TRUE, message_id |-> <<109, 49>>, from |-> <<49>>,
        to |-> <<43, 57>>, ts |-> <<49, 90>>, text |-> NULL],
       [json |-> TRUE, message_id |-> <<>>, from |-> <<43, 49>>,
        to |-> <<43, 57>>, ts |-> <<120, 90>>, text |-> NULL],
       [json |-> FALSE, message_id |-> NULL, from |-> NULL,
        to |-> NULL, ts |-> NULL, text |-> NULL] >>

BodyIds == 1..Len(Bodies)

\* settings.WEBHOOK_SECRET.
Secret == "testsecret"

\* hmac.new(key, raw, sha256).hexdigest(), as a symbolic term: two digests
\* are equal exactly when key and message are (no collisions, no forgery).
\* raw names the request bytes by their place in Bodies.
HexDigest(key, raw) == [kind |-> "hex", key |-> key, msg |-> raw]

\* The X-Signature header a client sends with body b: none at all, the
\* empty string, the right digest, the digest of another body under the
\* right key (the body was changed after signing), or the digest of this
\* body under a key the server does not hold.
SigChoices == {"absent", "empty", "good", "stale", "forged"}

XSignature(choice, b) ==
    CASE choice = "absent" -> [kind |-> "none", key |-> "", msg |-> 0]
      [] choice = "empty"  -> [kind |-> "empty", key |-> "", msg |-> 0]
      [] choice = "good"   -> HexDigest(Secret, b)
      [] choice = "stale"  -> HexDigest(Secret, (b % Len(Bodies)) + 1)
      [] choice = "forged" -> HexDigest("wrongsecret", b)

\* Python's  not x_signature : the header is absent or the empty string.
SignatureMissing(sig) == sig.kind \in {"none", "empty"}

\* hmac.compare_digest(a, b): equality of the two strings.
CompareDigest(a, b) == a = b


(***************************************************************************)
(* State                                                                   *)
(***************************************************************************)

Req == 1..NReq

VARIABLES
    table,             \* the rows of the messages table (committed)
    writer,            \* the request whose connection holds SQLite's write lock, or 0
    webhook_requests,  \* Metrics.webhook_requests
    http_requests,     \* Metrics.http_requests
    latency_buckets,   \* Metrics.latency_buckets
    observed,          \* how often observe_latency was called with each latency
    req,               \* each request: its input, its place in the code, its response
    insLog,            \* the insert_message calls that returned, in the order they returned,
                       \* each with the run of the process it was made in
    lock,              \* Metrics.lock: the thread that holds it, or 0
    thread,            \* each thread that calls the collector: its call and its place in it
    restarts           \* how often the process was started again

vars == <<table, writer, webhook_requests, http_requests, latency_buckets, observed,
         req, insLog, lock, thread, restarts>>

\* The labels inc_webhook is called with.
Outcomes == {"created", "duplicate", "invalid_signature", "validation_error"}

Paths == {"/webhook", "/messages", "/stats", "/metrics"}
Statuses == {200, 401, 422, 500}
Buckets == {"100", "500", "+Inf"}

\* The latencies a request may be measured with, in milliseconds.
Latencies == {100, 500, 501}

\* A row that is no row (a request that inserts nothing).
NoRow ==
    [message_id |-> NULL, from_msisdn |-> NULL, to_msisdn |-> NULL,
     ts |-> NULL, text |-> NULL, created_at |-> NULL]

\* The dictionary stats() returns, before any of its queries has run.
NoStats ==
    [total_messages |-> 0, senders_count |-> 0, messages_per_sender |-> <<>>,
     first_message_ts |-> NULL, last_message_ts |-> NULL]

\* The latency lines of the metrics text, before it is rendered.
NoLines == [le100 |-> 0, le500 |-> 0, leInf |-> 0, count |-> 0]

\* The threads that call the collector.
Thr == 1..NThr

\* A thread that has not called the collector: the operation it calls, the
\* key it counts, the value it has read of the counter, the size of the
\* dictionary it iterates.
Resting == [pc |-> "idle", op |-> "", key |-> <<>>, read |-> 0, size |-> 0]

\* A request that has not arrived.
Idle ==
    [pc |-> "idle", path |-> "", body |-> 0, sig |-> "", args |-> 0,
     row |-> NoRow, absent |-> FALSE, result |-> "", outcome |-> "",
     status |-> 0, detail |-> "", data |-> <<>>, total |-> 0,
     stats |-> NoStats, lines |-> NoLines]

\* datetime.utcnow().replace(tzinfo=utc).isoformat().replace("+00:00", "Z")
\* at clock reading t.
CreatedAt(t) == ReplaceUtcOffset(IsoFormat([clock |-> 48 + t, tz |-> "utc"]))

\* The arguments webhook() passes to insert_message for a validated body.
RowOf(b, created_at) ==
    [message_id |-> b.message_id, from_msisdn |-> b.from, to_msisdn |-> b.to,
     ts |-> ReplaceUtcOffset(IsoFormat(ParseTs(b.ts))), text |-> b.text,
     created_at |-> created_at]

\* The server's wall clock when request r arrives: the clock advances
\* between arrivals, requests arrive in the order of their numbers, and
\* the requests of a later run of the process arrive after those of an
\* earlier one.
Now(r) == restarts * NReq + r

\* A body accepted by an earlier run of the service: message_id "m0", a
\* timestamp without offset, no text.
EarlierBody ==
    [json |-> TRUE, message_id |-> <<109, 48>>, from |-> <<43, 50>>,
     to |-> <<43, 57>>, ts |-> <<49>>, text |-> NULL]

\* The rows an earlier run of the service left in the database file:
\* body 3 and EarlierBody, accepted at clock reading 0.
Seeded == {RowOf(Bodies[3], CreatedAt(0)), RowOf(EarlierBody, CreatedAt(0))}

\* The database file the service is started on: one without a messages
\* table, or the file of an earlier run.
DatabaseFiles == {[exists |-> FALSE, rows |-> {}], [exists |-> TRUE, rows |-> Seeded]}

\* A startup that makes the messages table anew.
InitDbRecreates(file) == {}

\* init_db: CREATE TABLE IF NOT EXISTS messages.  A table that is there is
\* left as it is; otherwise there is an empty one afterwards.
InitDb(file) == IF file.exists THEN file.rows ELSE {}

\* The messages table at startup.
InitialTables == {InitDb(file) : file \in DatabaseFiles}

\* init_db and Metrics.__init__.
Init ==
    /\ table \in InitialTables
    /\ writer = 0
    /\ webhook_requests = [o \in Outcomes |-> 0]
    /\ http_requests = [k \in Paths \X Statuses |-> 0]
    /\ latency_buckets = [b \in Buckets |-> 0]
    /\ observed = [ms \in Latencies |-> 0]
    /\ req = [r \in Req |-> Idle]
    /\ insLog = <<>>
    /\ lock = 0
    /\ thread = [t \in Thr |-> Resting]
    /\ restarts = 0

(***************************************************************************)
(* Metrics                                                                 *)
(***************************************************************************)

\* A collector that does not count duplicates.
IncWebhookSkipsDuplicate(counters, result) ==
    IF result = "duplicate" THEN counters ELSE [counters EXCEPT ![result] = @ + 1]

\* Metrics.inc_webhook: the counters after the call.
IncWebhook(counters, result) ==
    [counters EXCEPT ![result] = @ + 1]

\* Metrics.inc_http: the counters after the call.
IncHttp(counters, path, status) ==
    [counters EXCEPT ![<<path, status>>] = @ + 1]

\* An observe_latency that counts a latency in every bucket it is below.
ObserveLatencyCumulative(buckets, ms) ==
    [b \in Buckets |->
        IF b = "+Inf" \/ (b = "500" /\ ms <= 500) \/ (b = "100" /\ ms <= 100)
        THEN buckets[b] + 1 ELSE buckets[b]]

\* Metrics.observe_latency: the buckets after the call.
ObserveLatency(buckets, ms) ==
    IF ms <= 100 THEN [buckets EXCEPT !["100"] = @ + 1]
    ELSE IF ms <= 500 THEN [buckets EXCEPT !["500"] = @ + 1]
    ELSE [buckets EXCEPT !["+Inf"] = @ + 1]

(***************************************************************************)
(* POST /webhook                                                           *)
(***************************************************************************)

\* str(e) of the validation failure: the first check that fails.
ValidationDetail(b) ==
    IF ~b.json THEN "invalid json"
    ELSE IF ~ValidMessageId(b.message_id) THEN "message_id required"
    ELSE IF ~IsE164(b.from) THEN "from must be E.164-like"
    ELSE IF ~IsE164(b.to) THEN "to must be E.164-like"
    ELSE IF ~TsParses(b.ts) THEN "ts must be ISO format"
    ELSE "text too long"

\* A check that the header is there, without comparing it.
SignatureAbsentOnly(b, sig) == SignatureMissing(sig)

\* Whether webhook() raises 401 for body b (a place in Bodies) and header sig.
SignatureRejected(b, sig) ==
    \/ SignatureMissing(sig)
    \/ ~CompareDigest(HexDigest(Secret, b), sig)

\* The payload is validated before the signature is checked.
DecideValidatesFirst(b, sig) ==
    IF ~Validates(Bodies[b]) THEN "validation_error"
    ELSE IF SignatureRejected(b, sig) THEN "invalid_signature"
    ELSE "accepted"

\* webhook() up to its call of insert_message: the signature is checked
\* first, then the payload.
Decide(b, sig) ==
    IF SignatureRejected(b, sig) THEN "invalid_signature"
    ELSE IF ~Validates(Bodies[b]) THEN "validation_error"
    ELSE "accepted"

\* A handler that answers a failed validation with 400 Bad Request.
ResponseBadRequest(outcome, b) ==
    CASE outcome = "invalid_signature" -> [status |-> 401, detail |-> "invalid signature"]
      [] outcome = "validation_error"  -> [status |-> 400, detail |-> ValidationDetail(Bodies[b])]
      [] OTHER                         -> [status |-> 200, detail |-> "ok"]

\* A handler that tells the sender of a redelivery that it was one.
ResponseTellsDuplicate(outcome, b) ==
    CASE outcome = "invalid_signature" -> [status |-> 401, detail |-> "invalid signature"]
      [] outcome = "validation_error"  -> [status |-> 422, detail |-> ValidationDetail(Bodies[b])]
      [] outcome = "duplicate"         -> [status |-> 200, detail |-> "duplicate"]
      [] OTHER                         -> [status |-> 200, detail |-> "ok"]

\* The response webhook() ends with for each outcome: the HTTPException's
\* status and detail, or 200 {"status": "ok"}.
Response(outcome, b) ==
    CASE outcome = "invalid_signature" -> [status |-> 401, detail |-> "invalid signature"]
      [] outcome = "validation_error"  -> [status |-> 422, detail |-> ValidationDetail(Bodies[b])]
      [] OTHER                         -> [status |-> 200, detail |-> "ok"]

\* webhook() from the arrival of the request to its first use of the store,
\* as it changes the request and the metrics: the signature check, the
\* validation, created_at.  A rejected request is counted and gets its
\* HTTPException here.
Accept(r, b, choice) ==
    LET decision == Decide(b, XSignature(choice, b))
        arrived == [Idle EXCEPT !.path = "/webhook", !.body = b, !.sig = choice]
        row == RowOf(Bodies[b], CreatedAt(Now(r)))
    IN
    /\ req[r].pc = "idle"
    /\ \A q \in Req : q < r => req[q].pc # "idle"
    /\ IF decision = "accepted"
       THEN /\ webhook_requests' = webhook_requests
            /\ req' = [req EXCEPT ![r] =
                   [arrived EXCEPT !.pc = "execute", !.row = row,
                       !.absent = \A x \in table : x.message_id # row.message_id]]
       ELSE /\ webhook_requests' = IncWebhook(webhook_requests, decision)
            /\ req' = [req EXCEPT ![r] =
                   [arrived EXCEPT !.pc = "respond", !.outcome = decision,
                       !.status = Response(decision, b).status,
                       !.detail = Response(decision, b).detail]]

\* A handler that stores the message it received before it checks it.
WebhookStoresFirst(r, b, choice) ==
    /\ Accept(r, b, choice)
    /\ table' = IF Bodies[b].json
                THEN table \cup {[message_id |-> Bodies[b].message_id,
                                  from_msisdn |-> Bodies[b].from,
                                  to_msisdn |-> Bodies[b].to, ts |-> Bodies[b].ts,
                                  text |-> Bodies[b].text,
                                  created_at |-> CreatedAt(Now(r))]}
                ELSE table
    /\ UNCHANGED <<lock, thread, restarts, writer, http_requests, latency_buckets, observed, insLog>>

\* webhook() from the arrival of the request to its first use of the store:
\* nothing of the store is touched.
Webhook(r, b, choice) ==
    /\ Accept(r, b, choice)
    /\ UNCHANGED <<lock, thread, restarts, table, writer, http_requests, latency_buckets, observed, insLog>>

\* A table whose message_id column is no key: only NOT NULL is enforced.
ViolatesNotNullOnly(rows, row) ==
    \/ row.from_msisdn = NULL
    \/ row.to_msisdn = NULL
    \/ row.ts = NULL
    \/ row.created_at = NULL

\* The constraints of CREATE_MESSAGES_SQL an INSERT of row would violate:
\* the primary key, and NOT NULL on from_msisdn, to_msisdn, ts, created_at.
ViolatesConstraint(rows, row) ==
    \/ \E x \in rows : x.message_id = row.message_id
    \/ row.from_msisdn = NULL
    \/ row.to_msisdn = NULL
    \/ row.ts = NULL
    \/ row.created_at = NULL

\* INSERT OR REPLACE: a row with the same message_id is overwritten.
SqlInsertOrReplace(rows, row) ==
    IF ViolatesNotNullOnly(rows, row)
    THEN [error |-> TRUE, rows |-> rows]
    ELSE [error |-> FALSE,
          rows |-> {x \in rows : x.message_id # row.message_id} \cup {row}]

\* The INSERT statement of insert_message on the rows: an IntegrityError
\* and the rows as they were, or the rows with the new one.
SqlInsert(rows, row) ==
    IF ViolatesConstraint(rows, row)
    THEN [error |-> TRUE, rows |-> rows]
    ELSE [error |-> FALSE, rows |-> rows \cup {row}]

\* A check for the message_id followed by a later insert, with no lock held
\* in between.
InsertExecuteUnlocked(r) ==
    /\ req[r].pc = "execute"
    /\ IF \E x \in table : x.message_id = req[r].row.message_id
       THEN req' = [req EXCEPT ![r].pc = "close", ![r].result = "duplicate"]
       ELSE req' = [req EXCEPT ![r].pc = "commit"]
    /\ UNCHANGED <<lock, thread, restarts, table, writer, webhook_requests, http_requests, latency_buckets, observed, insLog>>

\* INSERT OR IGNORE: a row whose message_id is there raises no error, and
\* insert_message goes on to commit and return "created".
InsertExecuteOrIgnore(r) ==
    /\ req[r].pc = "execute"
    /\ writer = 0
    /\ req' = [req EXCEPT ![r].pc = "commit"]
    /\ writer' = r
    /\ UNCHANGED <<lock, thread, restarts, table, webhook_requests, http_requests, latency_buckets, observed, insLog>>

\* insert_message: db.execute(INSERT).  The statement takes the write lock
\* and checks the constraints against the committed rows; a violation
\* raises IntegrityError, which insert_message turns into "duplicate".
InsertExecute(r) ==
    /\ req[r].pc = "execute"
    /\ writer = 0
    /\ IF SqlInsert(table, req[r].row).error
       THEN /\ req' = [req EXCEPT ![r].pc = "close", ![r].result = "duplicate"]
            /\ writer' = writer
       ELSE /\ req' = [req EXCEPT ![r].pc = "commit"]
            /\ writer' = r
    /\ UNCHANGED <<lock, thread, restarts, table, webhook_requests, http_requests, latency_buckets, observed, insLog>>

\* An insert_message that catches every error of the driver: a database
\* that stays locked is reported as "duplicate".
InsertBusyAsDuplicate(r) ==
    /\ req[r].pc = "execute"
    /\ writer # 0
    /\ req' = [req EXCEPT ![r].pc = "close", ![r].result = "duplicate"]
    /\ UNCHANGED <<lock, thread, restarts, table, writer, webhook_requests, http_requests, latency_buckets, observed, insLog>>

\* insert_message: db.execute(INSERT) while another connection holds the
\* write lock until the busy timeout: sqlite3.OperationalError, which
\* insert_message does not catch; the handler ends without a response.
InsertBusy(r) ==
    /\ req[r].pc = "execute"
    /\ writer # 0
    /\ req' = [req EXCEPT ![r].pc = "respond", ![r].outcome = "error",
                          ![r].status = 500]
    /\ UNCHANGED <<lock, thread, restarts, table, writer, webhook_requests, http_requests, latency_buckets, observed, insLog>>

\* A failure of the store after the inserted row was written.
InsertUnavailableHalfDone(r) ==
    /\ req[r].pc \in {"execute", "commit"}
    /\ table' = table \cup {req[r].row}
    /\ writer' = IF writer = r THEN 0 ELSE writer
    /\ req' = [req EXCEPT ![r].pc = "respond", ![r].outcome = "error",
                          ![r].status = 500]
    /\ UNCHANGED <<lock, thread, restarts, webhook_requests, http_requests, latency_buckets, observed, insLog>>

\* insert_message: the store is unavailable (the file cannot be opened, the
\* messages table is missing, the disk fails) at db.execute or db.commit:
\* sqlite3.OperationalError, which insert_message does not catch.  Closing
\* the connection rolls back what was not committed and frees the lock; the
\* handler ends without a response and the server answers 500.
InsertUnavailable(r) ==
    /\ req[r].pc \in {"execute", "commit"}
    /\ writer' = IF writer = r THEN 0 ELSE writer
    /\ req' = [req EXCEPT ![r].pc = "respond", ![r].outcome = "error",
                          ![r].status = 500]
    /\ UNCHANGED <<lock, thread, restarts, table, webhook_requests, http_requests, latency_buckets, observed, insLog>>

\* insert_message: db.commit().  The inserted row becomes visible and the
\* write lock is released; insert_message will return "created".
InsertCommit(r) ==
    /\ req[r].pc = "commit"
    /\ table' = SqlInsert(table, req[r].row).rows
    /\ writer' = 0
    /\ req' = [req EXCEPT ![r].pc = "close", ![r].result = "created"]
    /\ UNCHANGED <<lock, thread, restarts, webhook_requests, http_requests, latency_buckets, observed, insLog>>

\* A webhook() that answers without counting the result of the insert.
WebhookRespondUncounted(r) ==
    /\ req[r].pc = "close"
    /\ insLog' = Append(insLog, [row |-> req[r].row, absent |-> req[r].absent,
                                 result |-> req[r].result, run |-> restarts])
    /\ req' = [req EXCEPT ![r].pc = "respond", ![r].outcome = req[r].result,
                          ![r].status = Response(req[r].result, req[r].body).status,
                          ![r].detail = Response(req[r].result, req[r].body).detail]
    /\ UNCHANGED <<lock, thread, restarts, table, writer, webhook_requests, http_requests, latency_buckets, observed>>

\* insert_message returns (the connection is closed); webhook() counts the
\* result and answers 200 {"status": "ok"}.
WebhookRespond(r) ==
    /\ req[r].pc = "close"
    /\ webhook_requests' = IncWebhook(webhook_requests, req[r].result)
    /\ insLog' = Append(insLog, [row |-> req[r].row, absent |-> req[r].absent,
                                 result |-> req[r].result, run |-> restarts])
    /\ req' = [req EXCEPT ![r].pc = "respond", ![r].outcome = req[r].result,
                          ![r].status = Response(req[r].result, req[r].body).status,
                          ![r].detail = Response(req[r].result, req[r].body).detail]
    /\ UNCHANGED <<lock, thread, restarts, table, writer, http_requests, latency_buckets, observed>>

(***************************************************************************)
(* GET /messages                                                           *)
(***************************************************************************)

DefaultLimit == 50
MaxLimit == 100

\* The query strings a client sends: the parameters among limit and offset
\* that it gives, their values, and from, since, q
\* ("+2" = <<43, 50>>, "1Z" = <<49, 90>>, "HI" = <<72, 73>>, "" = <<>>).
\* Queries 1 and 3 give neither limit nor offset; queries 3 and 4 differ in
\* limit and offset only; queries 6 and 7 are out of range.
Queries ==
    << [given |-> {}, limit |-> 0, offset |-> 0,
        from |-> NULL, since |-> NULL, q |-> NULL],
       [given |-> {"limit", "offset"}, limit |-> 1, offset |-> 1,
        from |-> <<>>, since |-> <<>>, q |-> <<>>],
       [given |-> {}, limit |-> 0, offset |-> 0,
        from |-> NULL, since |-> <<49, 90>>, q |-> <<72, 73>>],
       [given |-> {"limit", "offset"}, limit |-> 1, offset |-> 2,
        from |-> NULL, since |-> <<49, 90>>, q |-> <<72, 73>>],
       [given |-> {"limit"}, limit |-> MaxLimit, offset |-> 0,
        from |-> <<43, 50>>, since |-> <<49, 90>>, q |-> NULL],
       [given |-> {"limit"}, limit |-> MaxLimit + 1, offset |-> 0,
        from |-> NULL, since |-> NULL, q |-> NULL],
       [given |-> {"limit", "offset"}, limit |-> 1, offset |-> -1,
        from |-> NULL, since |-> NULL, q |-> NULL] >>

ArgIds == 1..Len(Queries)

\* The arguments get_messages is called with for each query: a parameter
\* the query does not give has its default (limit = 50, offset = 0; from,
\* since and q are None).
ListArgs ==
    [i \in ArgIds |->
        [limit |-> IF "limit" \in Queries[i].given THEN Queries[i].limit
                   ELSE DefaultLimit,
         offset |-> IF "offset" \in Queries[i].given THEN Queries[i].offset ELSE 0,
         from |-> Queries[i].from, since |-> Queries[i].since, q |-> Queries[i].q]]

\* A WHERE clause whose conditions are joined with OR.
SqlWhereAny(row, from_filter, since) ==
    \/ ~Truthy(from_filter) /\ ~Truthy(since)
    \/ Truthy(from_filter) /\ row.from_msisdn = from_filter
    \/ Truthy(since) /\ ~LexLess(row.ts, since)

\* The WHERE clause list_messages builds: a falsy filter adds no condition.
SqlWhere(row, from_filter, since) ==
    /\ Truthy(from_filter) => row.from_msisdn = from_filter
    /\ Truthy(since) => ~LexLess(row.ts, since)

\* ORDER BY ts ASC alone: rows with one timestamp come in any order.
OrderByTsOnly(a, b) == LexLess(a.ts, b.ts)

\* ORDER BY ts ASC, message_id ASC: a must come before b.
OrderBefore(a, b) ==
    \/ LexLess(a.ts, b.ts)
    \/ a.ts = b.ts /\ LexLess(a.message_id, b.message_id)

RECURSIVE OrderedRows(_)
\* Every arrangement of the rows S that ORDER BY allows: a row comes first
\* when no row of S must come before it.
OrderedRows(S) ==
    IF S = {} THEN {<<>>}
    ELSE UNION { { <<x>> \o t : t \in OrderedRows(S \ {x}) } :
                 x \in {y \in S : \A z \in S : ~OrderBefore(z, y)} }

\* The results SQLite may return for the SELECT: every arrangement of the
\* selected rows that ORDER BY allows, with the selected columns.
SqlSelect(rows, from_filter, since) ==
    { [i \in 1..Len(f) |->
         [message_id |-> f[i].message_id, from |-> f[i].from_msisdn,
          to |-> f[i].to_msisdn, ts |-> f[i].ts, text |-> f[i].text]] :
      f \in OrderedRows({x \in rows : SqlWhere(x, from_filter, since)}) }

\* A text filter that compares case as it is: q in (text or "").
TextMatchesExactCase(r, q) ==
    Contains(IF r.text = NULL THEN <<>> ELSE r.text, q)

\* The Python-side text filter: q_lower in (text or "").lower().
TextMatches(r, q) ==
    Contains(Lower(IF r.text = NULL THEN <<>> ELSE r.text), Lower(q))

\* The text search applied to the fetched rows.
TextFilter(rows, q) ==
    IF Truthy(q) THEN SelectSeq(rows, LAMBDA r : TextMatches(r, q)) ELSE rows

\* rows[offset : limit]: the slice ends at limit instead of offset + limit.
SliceEndsAtLimit(rows, offset, limit) ==
    SubSeq(rows, offset + 1, IF limit < Len(rows) THEN limit ELSE Len(rows))

\* Python's rows[offset : offset + limit] for offset >= 0.
Slice(rows, offset, limit) ==
    SubSeq(rows, offset + 1, IF offset + limit < Len(rows) THEN offset + limit ELSE Len(rows))

\* A list_messages that slices first and counts what is left.
ListCountsPage(rows, args) ==
    { [data |-> Slice(TextFilter(fetched, args.q), args.offset, args.limit),
       total |-> Len(Slice(TextFilter(fetched, args.q), args.offset, args.limit))] :
      fetched \in SqlSelect(rows, args.from, args.since) }

\* list_messages on the rows: the SELECT, the text filter, the count and
\* the slice; every (data, total) it may return.
ListResults(rows, args) ==
    { [data |-> Slice(TextFilter(fetched, args.q), args.offset, args.limit),
       total |-> Len(TextFilter(fetched, args.q))] :
      fetched \in SqlSelect(rows, args.from, args.since) }

\* A get_messages that passes every limit and offset on to list_messages.
GetMessagesUnchecked(r, a) ==
    LET args == ListArgs[a]
        arrived == [Idle EXCEPT !.path = "/messages", !.args = a]
    IN
    /\ req[r].pc = "idle"
    /\ \A q \in Req : q < r => req[q].pc # "idle"
    /\ \E res \in ListResults(table, args) :
         req' = [req EXCEPT ![r] =
             [arrived EXCEPT !.pc = "respond", !.status = 200,
                             !.data = res.data, !.total = res.total]]
    /\ UNCHANGED <<lock, thread, restarts, table, writer, webhook_requests, http_requests, latency_buckets, observed, insLog>>

\* get_messages: the range checks, then list_messages on the committed rows.
GetMessages(r, a) ==
    LET args == ListArgs[a]
        arrived == [Idle EXCEPT !.path = "/messages", !.args = a]
    IN
    /\ req[r].pc = "idle"
    /\ \A q \in Req : q < r => req[q].pc # "idle"
    /\ IF args.limit < 1 \/ args.limit > MaxLimit
       THEN req' = [req EXCEPT ![r] =
                [arrived EXCEPT !.pc = "respond", !.status = 422,
                                !.detail = "limit out of range"]]
       ELSE IF args.offset < 0
       THEN req' = [req EXCEPT ![r] =
                [arrived EXCEPT !.pc = "respond", !.status = 422,
                                !.detail = "offset out of range"]]
       ELSE \E res \in ListResults(table, args) :
              req' = [req EXCEPT ![r] =
                  [arrived EXCEPT !.pc = "respond", !.status = 200,
                                  !.data = res.data, !.total = res.total]]
    /\ UNCHANGED <<lock, thread, restarts, table, writer, webhook_requests, http_requests, latency_buckets, observed, insLog>>

\* get_messages with the store unavailable: list_messages raises
\* sqlite3.OperationalError and the server answers 500.
GetMessagesUnavailable(r, a) ==
    /\ req[r].pc = "idle"
    /\ \A q \in Req : q < r => req[q].pc # "idle"
    /\ ListArgs[a].limit \in 1..MaxLimit
    /\ ListArgs[a].offset >= 0
    /\ req' = [req EXCEPT ![r] =
          [Idle EXCEPT !.path = "/messages", !.pc = "respond",
                       !.outcome = "error", !.status = 500]]
    /\ UNCHANGED <<lock, thread, restarts, table, writer, webhook_requests, http_requests, latency_buckets, observed, insLog>>

(***************************************************************************)
(* GET /stats                                                              *)
(***************************************************************************)

\* LIMIT 10 of the top senders query.
TopLimit == 10

\* SELECT COUNT(*) FROM messages.
SqlCount(rows) == Cardinality(rows)

\* SELECT COUNT(from_msisdn) FROM messages: DISTINCT left out.
SqlCountSenders(rows) == Cardinality({x \in rows : x.from_msisdn # NULL})

\* SELECT COUNT(DISTINCT from_msisdn) FROM messages.
SqlCountDistinct(rows) == Cardinality({x.from_msisdn : x \in rows})

\* GROUP BY from_msisdn with COUNT(*): one row per sender.
SqlGroupBySender(rows) ==
    { [from |-> s, count |-> Cardinality({x \in rows : x.from_msisdn = s})] :
      s \in {x.from_msisdn : x \in rows} }

RECURSIVE OrderedGroups(_)
\* Every arrangement of the groups G that ORDER BY c DESC allows: a group
\* comes first when no group of G has a higher count.
OrderedGroups(G) ==
    IF G = {} THEN {<<>>}
    ELSE UNION { { <<x>> \o t : t \in OrderedGroups(G \ {x}) } :
                 x \in {y \in G : \A z \in G : z.count <= y.count} }

\* The results SQLite may return for the top senders query: the first
\* LIMIT rows of any arrangement of the groups that ORDER BY c DESC allows
\* (the query names no order among equal counts).
SqlTopSenders(rows) ==
    { SubSeq(g, 1, IF Len(g) < TopLimit THEN Len(g) ELSE TopLimit) :
      g \in OrderedGroups(SqlGroupBySender(rows)) }

\* SELECT MIN(ts) FROM messages: NULL on an empty table.
SqlMin(rows) ==
    IF rows = {} THEN NULL
    ELSE CHOOSE t \in {x.ts : x \in rows} : \A x \in rows : ~LexLess(x.ts, t)

\* SELECT MAX(ts) FROM messages: NULL on an empty table.
SqlMax(rows) ==
    IF rows = {} THEN NULL
    ELSE CHOOSE t \in {x.ts : x \in rows} : \A x \in rows : ~LexLess(t, x.ts)

\* stats(): the connection is opened and SELECT COUNT(*) runs on the rows
\* committed at that moment.
StatsCount(r) ==
    /\ req[r].pc = "idle"
    /\ \A q \in Req : q < r => req[q].pc # "idle"
    /\ req' = [req EXCEPT ![r] =
          [Idle EXCEPT !.path = "/stats", !.pc = "distinct",
                       !.stats = [NoStats EXCEPT !.total_messages = SqlCount(table)]]]
    /\ UNCHANGED <<lock, thread, restarts, table, writer, webhook_requests, http_requests, latency_buckets, observed, insLog>>

\* stats(): SELECT COUNT(DISTINCT from_msisdn), a statement of its own on
\* the rows committed when it runs.
StatsDistinct(r) ==
    /\ req[r].pc = "distinct"
    /\ req' = [req EXCEPT ![r].pc = "top",
                          ![r].stats.senders_count = SqlCountDistinct(table)]
    /\ UNCHANGED <<lock, thread, restarts, table, writer, webhook_requests, http_requests, latency_buckets, observed, insLog>>

\* stats(): the top senders query.
StatsTop(r) ==
    /\ req[r].pc = "top"
    /\ \E m \in SqlTopSenders(table) :
         req' = [req EXCEPT ![r].pc = "minmax", ![r].stats.messages_per_sender = m]
    /\ UNCHANGED <<lock, thread, restarts, table, writer, webhook_requests, http_requests, latency_buckets, observed, insLog>>

\* stats(): SELECT MIN(ts), MAX(ts); the dictionary is returned with 200.
StatsMinMax(r) ==
    /\ req[r].pc = "minmax"
    /\ req' = [req EXCEPT ![r].pc = "respond", ![r].status = 200,
                          ![r].stats.first_message_ts = SqlMin(table),
                          ![r].stats.last_message_ts = SqlMax(table)]
    /\ UNCHANGED <<lock, thread, restarts, table, writer, webhook_requests, http_requests, latency_buckets, observed, insLog>>

\* stats() with the store unavailable at one of its queries:
\* sqlite3.OperationalError; what the earlier queries returned is dropped
\* and the server answers 500.
StatsUnavailable(r) ==
    /\ \/ req[r].pc = "idle" /\ \A q \in Req : q < r => req[q].pc # "idle"
       \/ req[r].pc \in {"distinct", "top", "minmax"}
    /\ req' = [req EXCEPT ![r] =
          [Idle EXCEPT !.path = "/stats", !.pc = "respond",
                       !.outcome = "error", !.status = 500]]
    /\ UNCHANGED <<lock, thread, restarts, table, writer, webhook_requests, http_requests, latency_buckets, observed, insLog>>

(***************************************************************************)
(* GET /metrics                                                            *)
(***************************************************************************)

\* A rendering that prints each bucket's own counter.
RenderBucketsAsStored(buckets) ==
    [le100 |-> buckets["100"], le500 |-> buckets["500"], leInf |-> buckets["+Inf"],
     count |-> buckets["100"] + buckets["500"] + buckets["+Inf"]]

\* Metrics.render_prometheus: the values of the lines
\* request_latency_ms_bucket{le="100"}, {le="500"}, {le="+Inf"} and
\* request_latency_ms_count.
RenderPrometheus(buckets) ==
    LET count_100 == buckets["100"]
        count_500 == buckets["500"]
        count_inf == buckets["+Inf"]
        total == count_100 + count_500 + count_inf
    IN [le100 |-> count_100, le500 |-> count_100 + count_500,
        leInf |-> total, count |-> total]

\* get_metrics: the text is rendered from the counters as they are.
GetMetrics(r) ==
    /\ req[r].pc = "idle"
    /\ \A q \in Req : q < r => req[q].pc # "idle"
    /\ req' = [req EXCEPT ![r] =
          [Idle EXCEPT !.path = "/metrics", !.pc = "respond", !.status = 200,
                       !.lines = RenderPrometheus(latency_buckets)]]
    /\ UNCHANGED <<lock, thread, restarts, table, writer, webhook_requests, http_requests, latency_buckets, observed, insLog>>

(***************************************************************************)
(* Request middleware                                                      *)
(***************************************************************************)

\* What is left of a request once its response is sent.
Served(q) ==
    [Idle EXCEPT !.pc = "done", !.path = q.path, !.outcome = q.outcome,
                 !.status = q.status, !.detail = q.detail]

\* A middleware that counts after the handler has returned, outside any
\* finally block: a request whose handler raised is not counted.
MiddlewareCountsReturned(r, ms) ==
    /\ req[r].pc = "respond"
    /\ latency_buckets' = IF req[r].outcome = "error" THEN latency_buckets
                          ELSE ObserveLatency(latency_buckets, ms)
    /\ observed' = IF req[r].outcome = "error" THEN observed
                   ELSE [observed EXCEPT ![ms] = @ + 1]
    /\ http_requests' = IF req[r].outcome = "error" THEN http_requests
                        ELSE IncHttp(http_requests, req[r].path, req[r].status)
    /\ req' = [req EXCEPT ![r] = Served(req[r])]
    /\ UNCHANGED <<lock, thread, restarts, table, writer, webhook_requests, insLog>>

\* RequestLoggingMiddleware.dispatch, the finally block: the latency and the
\* (path, status) pair are counted, with status 500 when the handler raised.
MiddlewareFinish(r, ms) ==
    /\ req[r].pc = "respond"
    /\ latency_buckets' = ObserveLatency(latency_buckets, ms)
    /\ observed' = [observed EXCEPT ![ms] = @ + 1]
    /\ http_requests' = IncHttp(http_requests, req[r].path, req[r].status)
    /\ req' = [req EXCEPT ![r] = Served(req[r])]
    /\ UNCHANGED <<lock, thread, restarts, table, writer, webhook_requests, insLog>>

(***************************************************************************)
(* The service                                                             *)
(***************************************************************************)

\* A step of request r that needs no other request.
Step(r) ==
    \/ \E b \in BodyIds, c \in SigChoices : Webhook(r, b, c)
    \/ InsertExecute(r)
    \/ InsertCommit(r)
    \/ WebhookRespond(r)
    \/ \E a \in ArgIds : GetMessages(r, a)
    \/ StatsCount(r)
    \/ StatsDistinct(r)
    \/ StatsTop(r)
    \/ StatsMinMax(r)
    \/ GetMetrics(r)
    \/ InsertUnavailable(r)
    \/ \E a \in ArgIds : GetMessagesUnavailable(r, a)
    \/ StatsUnavailable(r)
    \/ \E ms \in Latencies : MiddlewareFinish(r, ms)

\* Requests are served concurrently: any request may take its next step.
Next ==
    \/ \E r \in Req : Step(r)
    \/ \E r \in Req : InsertBusy(r)

Spec == Init /\ [][Next]_vars

\* No other request is being served.
Alone(r) == \A q \in Req \ {r} : req[q].pc \in {"idle", "done"}

\* Requests are served one at a time: each is answered before the next
\* arrives.
NextSeq ==
    \/ \E r \in Req, b \in BodyIds, c \in SigChoices : Alone(r) /\ Webhook(r, b, c)
    \/ \E r \in Req : Alone(r) /\ InsertExecute(r)
    \/ \E r \in Req : Alone(r) /\ InsertCommit(r)
    \/ \E r \in Req : Alone(r) /\ WebhookRespond(r)
    \/ \E r \in Req, a \in ArgIds : Alone(r) /\ GetMessages(r, a)
    \/ \E r \in Req : Alone(r) /\ StatsCount(r)
    \/ \E r \in Req : Alone(r) /\ StatsDistinct(r)
    \/ \E r \in Req : Alone(r) /\ StatsTop(r)
    \/ \E r \in Req : Alone(r) /\ StatsMinMax(r)
    \/ \E r \in Req : Alone(r) /\ GetMetrics(r)
    \/ \E r \in Req : Alone(r) /\ InsertUnavailable(r)
    \/ \E r \in Req, a \in ArgIds : Alone(r) /\ GetMessagesUnavailable(r, a)
    \/ \E r \in Req : Alone(r) /\ StatsUnavailable(r)
    \/ \E r \in Req, ms \in Latencies : Alone(r) /\ MiddlewareFinish(r, ms)

SpecSeq == Init /\ [][NextSeq]_vars

\* Ingestion and listing alone, with requests served concurrently and every
\* latency measured as 100 ms: the requests that write the store or read
\* its messages.
NextIngest ==
    \/ \E r \in Req, b \in BodyIds, c \in SigChoices : Webhook(r, b, c)
    \/ \E r \in Req : InsertExecute(r)
    \/ \E r \in Req : InsertCommit(r)
    \/ \E r \in Req : WebhookRespond(r)
    \/ \E r \in Req : InsertBusy(r)
    \/ \E r \in Req, a \in ArgIds : GetMessages(r, a)
    \/ \E r \in Req : MiddlewareFinish(r, 100)

SpecIngest == Init /\ [][NextIngest]_vars

\* Listing beside the deliveries that reach the store (those with the right
\* signature and a valid body), with requests served concurrently and every
\* latency measured as 100 ms.
NextList ==
    \/ \E r \in Req, b \in {i \in BodyIds : Validates(Bodies[i])} : Webhook(r, b, "good")
    \/ \E r \in Req : InsertExecute(r)
    \/ \E r \in Req : InsertCommit(r)
    \/ \E r \in Req : WebhookRespond(r)
    \/ \E r \in Req : InsertBusy(r)
    \/ \E r \in Req, a \in ArgIds : GetMessages(r, a)
    \/ \E r \in Req : MiddlewareFinish(r, 100)

SpecList == Init /\ [][NextList]_vars

\* The store behind its three operations, with requests served concurrently,
\* the store failing at any moment and every latency measured as 100 ms.
NextStore ==
    \/ \E r \in Req, b \in BodyIds : Webhook(r, b, "good")
    \/ \E r \in Req : InsertExecute(r)
    \/ \E r \in Req : InsertCommit(r)
    \/ \E r \in Req : WebhookRespond(r)
    \/ \E r \in Req : InsertBusy(r)
    \/ \E r \in Req : InsertUnavailable(r)
    \/ \E r \in Req, a \in ArgIds : GetMessages(r, a)
    \/ \E r \in Req, a \in ArgIds : GetMessagesUnavailable(r, a)
    \/ \E r \in Req : StatsCount(r)
    \/ \E r \in Req : StatsDistinct(r)
    \/ \E r \in Req : StatsTop(r)
    \/ \E r \in Req : StatsMinMax(r)
    \/ \E r \in Req : StatsUnavailable(r)
    \/ \E r \in Req : MiddlewareFinish(r, 100)

SpecStore == Init /\ [][NextStore]_vars

\* The metrics collector under concurrent webhook and metrics requests
\* (deliveries with the right signature or none), with every latency.
NextMetrics ==
    \/ \E r \in Req, b \in BodyIds, c \in {"good", "absent"} : Webhook(r, b, c)
    \/ \E r \in Req : InsertExecute(r)
    \/ \E r \in Req : InsertCommit(r)
    \/ \E r \in Req : WebhookRespond(r)
    \/ \E r \in Req : InsertBusy(r)
    \/ \E r \in Req : GetMetrics(r)
    \/ \E r \in Req, ms \in Latencies : MiddlewareFinish(r, ms)

SpecMetrics == Init /\ [][NextMetrics]_vars

\* Deliveries alone, of every kind, with requests served concurrently, the
\* store failing at any moment and every latency measured as 100 ms.
NextWebhook ==
    \/ \E r \in Req, b \in BodyIds, c \in SigChoices : Webhook(r, b, c)
    \/ \E r \in Req : InsertExecute(r)
    \/ \E r \in Req : InsertCommit(r)
    \/ \E r \in Req : WebhookRespond(r)
    \/ \E r \in Req : InsertBusy(r)
    \/ \E r \in Req : InsertUnavailable(r)
    \/ \E r \in Req : MiddlewareFinish(r, 100)

SpecWebhook == Init /\ [][NextWebhook]_vars

\* How often the process is started again.
MaxRestarts == 1

\* The process ends (at any moment) and is started again on the same
\* database file: what was not committed is rolled back with the
\* connections, the requests in flight are lost, a new Metrics object is
\* made and startup() runs init_db.
Restart ==
    /\ restarts < MaxRestarts
    /\ restarts' = restarts + 1
    /\ table' = InitDb([exists |-> TRUE, rows |-> table])
    /\ writer' = 0
    /\ webhook_requests' = [o \in Outcomes |-> 0]
    /\ http_requests' = [k \in Paths \X Statuses |-> 0]
    /\ latency_buckets' = [b \in Buckets |-> 0]
    /\ observed' = [ms \in Latencies |-> 0]
    /\ req' = [r \in Req |-> Idle]
    /\ lock' = 0
    /\ thread' = [t \in Thr |-> Resting]
    /\ UNCHANGED insLog

\* Deliveries that reach the store (those with the right signature and a
\* valid body), served one at a time with every latency measured as
\* 100 ms, in a process that may end at any moment and be started again.
NextRestart ==
    \/ \E r \in Req, b \in {i \in BodyIds : Validates(Bodies[i])} :
          Alone(r) /\ Webhook(r, b, "good")
    \/ \E r \in Req : Alone(r) /\ InsertExecute(r)
    \/ \E r \in Req : Alone(r) /\ InsertCommit(r)
    \/ \E r \in Req : Alone(r) /\ WebhookRespond(r)
    \/ \E r \in Req : Alone(r) /\ MiddlewareFinish(r, 100)
    \/ Restart

SpecRestart == Init /\ [][NextRestart]_vars

(***************************************************************************)
(* Properties                                                              *)
(***************************************************************************)

\* The rows of the table with this message_id.
RowsWith(id) == {x \in table : x.message_id = id}

\* The requests that are inside insert_message.
Inserting == {r \in Req : req[r].pc \in {"execute", "commit", "close"}}

\* C1: when requests are served one after the other, an insert_message call
\* for a message_id the table did not hold returns "created", every later
\* call with that message_id returns "duplicate", and after each of them
\* the table holds exactly one row with that message_id.
C1_InsertTwice ==
    \A i, j \in 1..Len(insLog) :
        (i < j /\ insLog[i].absent
               /\ insLog[j].row.message_id = insLog[i].row.message_id)
        => /\ insLog[i].result = "created"
           /\ insLog[j].result = "duplicate"
           /\ Cardinality(RowsWith(insLog[i].row.message_id)) = 1

\* C1 witness: a message was delivered twice, first to a table without it.
C1_Witness ==
    /\ Len(insLog) = 2
    /\ insLog[1].absent
    /\ insLog[2].row.message_id = insLog[1].row.message_id
    /\ insLog[2].result = "duplicate"
    /\ Inserting = {}


\* C2: under concurrent requests no state of the table holds two rows with
\* one message_id, and of the insert_message calls for a message_id that
\* were made while the table did not hold it, once all have returned,
\* exactly one has returned "created" and every other one "duplicate".
C2_ConcurrentInsert ==
    /\ \A x, y \in table : x.message_id = y.message_id => x = y
    /\ \A i \in 1..Len(insLog) :
         LET id == insLog[i].row.message_id
             returned == {j \in 1..Len(insLog) : insLog[j].row.message_id = id}
             created == {j \in returned : insLog[j].result = "created"}
         IN /\ Cardinality(created) <= 1
            /\ \A j \in returned \ created : insLog[j].result = "duplicate"
            /\ (insLog[i].absent /\ \A r \in Inserting : req[r].row.message_id # id)
               => Cardinality(created) = 1

\* C2 witness: two calls for one message_id were both made before its row
\* existed, and the one that lost the race returned first.
C2_Witness ==
    /\ Len(insLog) = 2
    /\ insLog[1].absent /\ insLog[2].absent
    /\ insLog[1].row.message_id = insLog[2].row.message_id
    /\ insLog[1].result = "duplicate"
    /\ insLog[2].result = "created"

\* C3: no step removes or changes a row: every row of the table is in the
\* table after the step, with all its fields, and is still the only row
\* with its message_id.
C3_RowsImmutable ==
    [][\A x \in table :
           /\ x \in table'
           /\ \A y \in table' : y.message_id = x.message_id => y = x]_vars

\* C3 witness: a message_id was delivered again with other field values,
\* the delivery was answered, and the table holds the row of the first.
C3_Witness ==
    \E i \in 1..Len(insLog) : \E x \in table :
        /\ insLog[i].result = "duplicate"
        /\ x.message_id = insLog[i].row.message_id
        /\ x.from_msisdn # insLog[i].row.from_msisdn
        /\ x.ts # insLog[i].row.ts
        /\ x.text # insLog[i].row.text
        /\ x.created_at # insLog[i].row.created_at


\* The webhook requests whose handler has ended with a response not yet
\* passed on by the middleware: input and response are both known.
Answered == {r \in Req : req[r].path = "/webhook" /\ req[r].pc = "respond"}

\* The webhook requests that have arrived and are not yet served.
InHandler == {r \in Req : req[r].path = "/webhook" /\ req[r].pc \notin {"idle", "done"}}

\* The X-Signature header of request r.
Header(r) == XSignature(req[r].sig, req[r].body)

\* The header of request r is present, not empty, and is the hex
\* HMAC-SHA256 of the request's body under the server's secret.
Genuine(r) ==
    /\ Header(r).kind = "hex"
    /\ Header(r).key = Secret
    /\ Header(r).msg = req[r].body

Rejections == {"invalid_signature", "validation_error"}

\* C5: a request that ends as invalid_signature or validation_error gets
\* its response in the step it arrives in, without a step inside
\* insert_message, and none of its steps changes the table, the write lock
\* or the record of inserts.
C5_RejectedLeavesStore ==
    [][\A r \in Req :
          (req'[r] # req[r] /\ req'[r].outcome \in Rejections)
          => /\ table' = table
             /\ writer' = writer
             /\ insLog' = insLog
             /\ req[r].pc = "idle" => req'[r].pc = "respond"]_vars

\* C5 witness: the table holds rows, one request with a valid body was
\* rejected for its signature and another for its payload.
C5_Witness ==
    /\ table # {}
    /\ \E r1, r2 \in Answered :
         /\ req[r1].outcome = "invalid_signature"
         /\ Validates(Bodies[req[r1].body])
         /\ req[r2].outcome = "validation_error"

C7_CountedOnce ==
    /\ \A l \in Outcomes :
         webhook_requests[l] =
             Cardinality({r \in Req : /\ req[r].path = "/webhook"
                                      /\ req[r].pc \in {"respond", "done"}
                                      /\ req[r].outcome = l})
    /\ \A r \in Answered :
         (Genuine(r) /\ ~Bodies[req[r].body].json)
         => req[r].outcome = "validation_error"

\* C7 witness: a correctly signed body that is not JSON was answered after
\* a duplicate delivery, each counted once.
C7_Witness ==
    /\ \E r \in Answered : Genuine(r) /\ ~Bodies[req[r].body].json
    /\ webhook_requests["validation_error"] = 1
    /\ webhook_requests["duplicate"] = 1

\* The webhook requests whose handler has ended.
Ended == {r \in Req : req[r].path = "/webhook" /\ req[r].pc \in {"respond", "done"}}

\* C8: a webhook request that ends as created or duplicate is answered
\* 200, as invalid_signature 401, as validation_error 422.
C8_StatusOfOutcome ==
    \A r \in Ended :
        /\ req[r].outcome \in {"created", "duplicate"} => req[r].status = 200
        /\ req[r].outcome = "invalid_signature" => req[r].status = 401
        /\ req[r].outcome = "validation_error" => req[r].status = 422

\* C8 witness: one request ended as validation_error and one as created.
C8_Witness ==
    \E r1, r2 \in Ended :
        /\ req[r1].outcome = "validation_error"
        /\ req[r2].outcome = "created"

\* C9: a request that ends as duplicate gets the status and the body of a
\* request that ends as created, and the two are counted under different
\* labels.
C9_DuplicateLooksCreated ==
    \A r1, r2 \in Ended :
        (req[r1].outcome = "created" /\ req[r2].outcome = "duplicate")
        => /\ req[r2].status = req[r1].status
           /\ req[r2].detail = req[r1].detail
           /\ webhook_requests["created"] >= 1
           /\ webhook_requests["duplicate"] >= 1

\* C9 witness: one body with one signature was delivered twice; the first
\* delivery ended as created, the second as duplicate.
C9_Witness ==
    \E r1, r2 \in Answered :
        /\ req[r1].body = req[r2].body
        /\ req[r1].sig = req[r2].sig
        /\ req[r1].outcome = "created"
        /\ req[r2].outcome = "duplicate"


\* The list requests that were answered with a page.
Listed == {r \in Req : req[r].path = "/messages" /\ req[r].pc = "respond"
                       /\ req[r].status = 200}

\* C10: the page of every list response is in ascending order of timestamp
\* and, among equal timestamps, of message_id, both compared as strings;
\* and for the table as it is and each valid query there is one page and
\* one total that list can return, so that two calls with no insert between
\* them return the same.
C10_ListOrdered ==
    /\ \A r \in Listed : \A i, j \in 1..Len(req[r].data) :
         i < j => \/ LexLess(req[r].data[i].ts, req[r].data[j].ts)
                  \/ /\ req[r].data[i].ts = req[r].data[j].ts
                     /\ LexLess(req[r].data[i].message_id, req[r].data[j].message_id)
    /\ \A a \in ArgIds :
         (ListArgs[a].limit \in 1..MaxLimit /\ ListArgs[a].offset >= 0)
         => Cardinality(ListResults(table, ListArgs[a])) = 1

\* C10 witness: a list response holds three messages, two of them with one
\* timestamp.
C10_Witness ==
    \E r \in Listed :
        /\ Len(req[r].data) = 3
        /\ req[r].data[2].ts = req[r].data[3].ts

\* The queries get_messages passes on to list_messages.
ValidArgs == {a \in ArgIds : ListArgs[a].limit \in 1..MaxLimit /\ ListArgs[a].offset >= 0}

\* A filter is supplied when the query has it and it is not the empty string.
Supplied(f) == f # NULL /\ f # <<>>

\* Two characters that are equal or differ in case only.
SameLetter(a, b) ==
    \/ a = b
    \/ a \in 65..90 /\ b = a + 32
    \/ b \in 65..90 /\ a = b + 32

\* The text holds the query as a substring, ignoring case.
HasSubstring(text, q) ==
    \E i \in 0..(Len(text) - Len(q)) : \A k \in 1..Len(q) : SameLetter(text[i + k], q[k])

\* The stored message x passes every filter the query supplies.
MatchesAll(x, args) ==
    /\ Supplied(args.from) => x.from_msisdn = args.from
    /\ Supplied(args.since) => (x.ts = args.since \/ LexLess(args.since, x.ts))
    /\ Supplied(args.q) => (x.text # NULL /\ HasSubstring(x.text, args.q))

\* Two queries with the same filters.
SameFilters(a1, a2) ==
    /\ ListArgs[a1].from = ListArgs[a2].from
    /\ ListArgs[a1].since = ListArgs[a2].since
    /\ ListArgs[a1].q = ListArgs[a2].q

\* C11: for the table as it is, the total list returns is the number of
\* stored messages that pass every supplied filter (from, since and the
\* text query), whatever limit and offset are, so that two queries with the
\* same filters get the same total, also with an offset beyond the end.
C11_TotalBeforePaging ==
    \A a \in ValidArgs : \A res \in ListResults(table, ListArgs[a]) :
        /\ res.total = Cardinality({x \in table : MatchesAll(x, ListArgs[a])})
        /\ \A a2 \in ValidArgs : SameFilters(a, a2) =>
             \A res2 \in ListResults(table, ListArgs[a2]) : res2.total = res.total

\* C11 witness: a list response with filters and an offset beyond the end
\* holds an empty page and the total 2.
C11_Witness ==
    \E r \in Listed :
        /\ Supplied(ListArgs[req[r].args].q)
        /\ ListArgs[req[r].args].offset >= req[r].total
        /\ req[r].total = 2
        /\ req[r].data = <<>>

\* The smaller of two numbers.
Min(a, b) == IF a <= b THEN a ELSE b

\* The query with the same filters that asks for everything from the start.
Unpaged(args) == [args EXCEPT !.limit = MaxLimit, !.offset = 0]

\* C12: for limit in 1..100 and offset >= 0 the page list returns has
\* min(limit, max(0, total - offset)) messages, and they are the messages at
\* the places offset+1, offset+2, ... of the whole filtered and ordered
\* sequence; with an offset at or beyond total the page is empty.
C12_PageIsSlice ==
    \A a \in ValidArgs : \A res \in ListResults(table, ListArgs[a]) :
        LET args == ListArgs[a]
            rest == IF res.total - args.offset > 0 THEN res.total - args.offset ELSE 0
        IN /\ Len(res.data) = Min(args.limit, rest)
           /\ \E whole \in ListResults(table, Unpaged(args)) :
                /\ Len(whole.data) = res.total
                /\ whole.total = res.total
                /\ \A i \in 1..Len(res.data) : res.data[i] = whole.data[args.offset + i]
           /\ args.offset >= res.total => res.data = <<>>

\* C12 witness: a list response with limit 1 and offset 1 over three
\* messages holds one message.
C12_Witness ==
    \E r \in Listed :
        /\ ListArgs[req[r].args].limit = 1
        /\ ListArgs[req[r].args].offset = 1
        /\ req[r].total = 3
        /\ Len(req[r].data) = 1

\* The stored message x is among the messages of a page.
OnPage(x, data) == \E i \in 1..Len(data) : data[i].message_id = x.message_id

\* C13: for the table as it is and every valid query, a stored message is
\* among the results of list, and counted in total, exactly when it passes
\* every supplied filter together: its from equals the from filter, its
\* timestamp is the since filter or after it as a string, and the text
\* query matches it.
C13_FiltersConjunctive ==
    \A a \in ValidArgs : \A whole \in ListResults(table, Unpaged(ListArgs[a])) :
        /\ \A x \in table : OnPage(x, whole.data) <=> MatchesAll(x, ListArgs[a])
        /\ \A i, j \in 1..Len(whole.data) :
             i # j => whole.data[i].message_id # whole.data[j].message_id
        /\ whole.total = Len(whole.data)

\* C13 witness: a list response to a query with a from filter and a since
\* filter counts one of three stored messages; one of the others has the
\* sender but an earlier timestamp, one the timestamp but another sender.
C13_Witness ==
    \E r \in Listed :
        LET args == ListArgs[req[r].args] IN
        /\ Supplied(args.from) /\ Supplied(args.since)
        /\ req[r].total = 1
        /\ Cardinality(table) = 3
        /\ \E x \in table : x.from_msisdn = args.from /\ LexLess(x.ts, args.since)
        /\ \E x \in table : x.from_msisdn # args.from /\ x.ts = args.since

\* C14: for the table as it is and every valid query with a non-empty text
\* query, a stored message that passes the from and since filters is among
\* the results of list exactly when it has a text and the text holds the
\* query as a substring, ignoring case; a message without text is never
\* among them.
C14_TextQuery ==
    \A a \in ValidArgs : Supplied(ListArgs[a].q) =>
        \A whole \in ListResults(table, Unpaged(ListArgs[a])) :
            /\ \A x \in table :
                 MatchesAll(x, [ListArgs[a] EXCEPT !.q = NULL])
                 => (OnPage(x, whole.data)
                       <=> (x.text # NULL /\ HasSubstring(x.text, ListArgs[a].q)))
            /\ \A i \in 1..Len(whole.data) : whole.data[i].text # NULL

\* C14 witness: a list response to a text query holds a message whose text
\* has the query in another case, and leaves out a stored message without
\* text that passes the other filters.
C14_Witness ==
    \E r \in Listed :
        LET args == ListArgs[req[r].args] IN
        /\ Supplied(args.q)
        /\ \E i \in 1..Len(req[r].data) : ~Contains(req[r].data[i].text, args.q)
        /\ \E x \in table : /\ x.text = NULL
                            /\ MatchesAll(x, [args EXCEPT !.q = NULL])

\* The stats requests that were answered with the dictionary.
StatsAnswered == {r \in Req : req[r].path = "/stats" /\ req[r].pc = "respond"
                              /\ req[r].status = 200}

\* The senders of the stored messages.
Senders == {x.from_msisdn : x \in table}

\* C15: when requests are served one after the other, stats() returns, for
\* the table the inserts before it have left, total_messages = the number
\* of rows, senders_count = the number of distinct from values, and
\* first_message_ts / last_message_ts = a stored timestamp that no stored
\* timestamp is below / above as a string; both are null when the table is
\* empty.
C15_StatsOfTable ==
    \A r \in StatsAnswered :
        LET st == req[r].stats IN
        /\ st.total_messages = Cardinality(table)
        /\ st.senders_count = Cardinality(Senders)
        /\ table = {} => st.first_message_ts = NULL /\ st.last_message_ts = NULL
        /\ table # {} =>
             /\ \E x \in table : x.ts = st.first_message_ts
             /\ \E x \in table : x.ts = st.last_message_ts
             /\ \A x \in table : /\ ~LexLess(x.ts, st.first_message_ts)
                                 /\ ~LexLess(st.last_message_ts, x.ts)

\* C15 witness: stats() after an insert into a table that held two
\* messages: three messages of two senders, the first timestamp below the
\* last.
C15_Witness ==
    \E r \in StatsAnswered :
        /\ Len(insLog) = 1 /\ insLog[1].result = "created"
        /\ req[r].stats.total_messages = 3
        /\ req[r].stats.senders_count = 2
        /\ LexLess(req[r].stats.first_message_ts, req[r].stats.last_message_ts)

\* The number of stored messages of a sender.
CountOf(s) == Cardinality({x \in table : x.from_msisdn = s})

\* C16: when requests are served one after the other, messages_per_sender
\* of a stats response has at most 10 entries, each a sender with its exact
\* count, in descending order of count and, among equal counts, in
\* ascending order of sender; every sender left out comes after every
\* sender listed in that order.
C16_TopSendersOrdered ==
    \A r \in StatsAnswered :
        LET m == req[r].stats.messages_per_sender
            listed == {m[i].from : i \in 1..Len(m)}
            Before(s, c, t, d) == c > d \/ (c = d /\ LexLess(s, t))
        IN /\ Len(m) <= TopLimit
           /\ Len(m) = (IF Cardinality(Senders) < TopLimit
                        THEN Cardinality(Senders) ELSE TopLimit)
           /\ \A i \in 1..Len(m) : m[i].from \in Senders /\ m[i].count = CountOf(m[i].from)
           /\ \A i, j \in 1..Len(m) :
                i < j => Before(m[i].from, m[i].count, m[j].from, m[j].count)
           /\ \A s \in Senders \ listed : \A i \in 1..Len(m) :
                Before(m[i].from, m[i].count, s, CountOf(s))

\* The dictionary st is what stats() returns when every query of it reads
\* the rows T.
Describes(st, T) ==
    /\ st.total_messages = SqlCount(T)
    /\ st.senders_count = SqlCountDistinct(T)
    /\ st.messages_per_sender \in SqlTopSenders(T)
    /\ st.first_message_ts = SqlMin(T)
    /\ st.last_message_ts = SqlMax(T)

\* C17: also with inserts committing while stats() runs, the dictionary of
\* every stats response describes one state of the table, a set of rows
\* the table has held (rows are never removed, so a subset of its rows):
\* the counts of the listed senders then sum to total_messages and the
\* number of listed senders is senders_count.
C17_StatsSingleState ==
    \A r \in StatsAnswered : \E T \in SUBSET table : Describes(req[r].stats, T)

\* Every step in which a store operation of a request fails leaves the
\* table, the webhook counters and the record of inserts as they were and
\* ends the request with this status and neither result of insert_message;
\* a request that has failed stays failed, with this status, and takes no
\* further step in the store.
StoreFailureAnswered(code) ==
    \A r \in Req :
        /\ (req[r].outcome # "error" /\ req'[r].outcome = "error")
           => /\ table' = table
              /\ webhook_requests' = webhook_requests
              /\ insLog' = insLog
              /\ req'[r].pc = "respond"
              /\ req'[r].status = code
              /\ req'[r].result \notin {"created", "duplicate"}
        /\ req[r].outcome = "error"
           => /\ req'[r].outcome = "error"
              /\ req'[r].pc \in {"respond", "done"}
              /\ req'[r].status = code

BucketOf(ms) == IF ms <= 100 THEN "100" ELSE IF ms <= 500 THEN "500" ELSE "+Inf"

\* C19: every step in which observe_latency is called with a latency ms
\* adds one to the bucket of ms and leaves the two other buckets and the
\* webhook counters as they were (in the same step the middleware's
\* inc_http adds one to one path-and-status counter); no other step changes
\* a bucket.
C19_OneBucket ==
    [][ /\ \A ms \in Latencies :
             observed'[ms] # observed[ms]
             => /\ latency_buckets'[BucketOf(ms)] = latency_buckets[BucketOf(ms)] + 1
                /\ \A b \in Buckets \ {BucketOf(ms)} :
                     latency_buckets'[b] = latency_buckets[b]
                /\ webhook_requests' = webhook_requests
                /\ \E k \in Paths \X Statuses :
                     http_requests' = [http_requests EXCEPT ![k] = @ + 1]
        /\ observed' = observed => latency_buckets' = latency_buckets
      ]_vars

\* C19 witness: one latency of 500 ms and one of 501 ms were observed: the
\* second and the third bucket hold one each, the first none.
C19_Witness ==
    /\ observed[500] = 1 /\ observed[501] = 1
    /\ latency_buckets["100"] = 0
    /\ latency_buckets["500"] = 1
    /\ latency_buckets["+Inf"] = 1

RECURSIVE Sum(_, _)
\* The sum of f over the set S.
Sum(f, S) ==
    IF S = {} THEN 0
    ELSE LET x == CHOOSE y \in S : TRUE IN f[x] + Sum(f, S \ {x})

\* The number of observe_latency calls so far with a latency up to bound.
ObservedUpTo(bound) == Sum(observed, {ms \in Latencies : ms <= bound})

\* The metrics requests whose text has been rendered.
MetricsRendered == {r \in Req : req[r].path = "/metrics" /\ req[r].pc = "respond"}

\* C20: in every step that renders the metrics text, the value of le="100"
\* is the number of observations up to 100 ms so far, the value of le="500"
\* the number of observations up to 500 ms, and the value of le="+Inf" and
\* of the count line the number of all observe_latency calls since the
\* start, one for each request served; so le="100" <= le="500" <= le="+Inf".
C20_CumulativeBuckets ==
    [][ \A r \in Req :
          (req[r].pc = "idle" /\ req'[r].path = "/metrics")
          => LET out == req'[r].lines IN
             /\ out.le100 = ObservedUpTo(100)
             /\ out.le500 = ObservedUpTo(500)
             /\ out.leInf = Sum(observed, Latencies)
             /\ out.leInf = Cardinality({q \in Req : req[q].pc = "done"})
             /\ out.count = out.leInf
             /\ out.le100 <= out.le500
             /\ out.le500 <= out.leInf
      ]_vars

\* C20 witness: a metrics text rendered after one observation of 500 ms:
\* le="100" is 0, le="500" is 1, le="+Inf" and the count are 1.
C20_Witness ==
    \E r \in MetricsRendered :
        /\ observed[500] = 1
        /\ req[r].lines = [le100 |-> 0, le500 |-> 1, leInf |-> 1, count |-> 1]

(***************************************************************************)
(* The collector called from threads                                       *)
(***************************************************************************)

\* The calls a thread makes of the collector, each with its arguments as a
\* tuple: inc_http with two pairs, inc_webhook with one result,
\* observe_latency with two latencies.
MetricsCalls ==
    << [op |-> "inc_http", key |-> <<"/webhook", 200>>],
       [op |-> "inc_http", key |-> <<"/metrics", 200>>],
       [op |-> "inc_webhook", key |-> <<"created">>],
       [op |-> "observe_latency", key |-> <<100>>],
       [op |-> "observe_latency", key |-> <<501>>] >>

CallIds == 1..Len(MetricsCalls)

\* The bucket observe_latency counts a latency in.
LatencyKey(ms) ==
    CHOOSE b \in Buckets : ObserveLatency([x \in Buckets |-> 0], ms)[b] = 1

\* The counter a call reads and writes.
CounterOf(c) ==
    CASE c.op = "inc_http"    -> http_requests[c.key]
      [] c.op = "inc_webhook" -> webhook_requests[c.key[1]]
      [] OTHER                -> latency_buckets[LatencyKey(c.key[1])]

\* The keys of the dictionary http_requests: a defaultdict gets a key when
\* the key is first read, which  += 1  does before it writes.
HttpKeys ==
    {k \in DOMAIN http_requests :
        \/ http_requests[k] > 0
        \/ \E t \in Thr : /\ thread[t].op = "inc_http"
                          /\ thread[t].pc = "write"
                          /\ thread[t].key = k}

\* The keys of the dictionary webhook_requests.
WebhookKeys ==
    {k \in DOMAIN webhook_requests :
        \/ webhook_requests[k] > 0
        \/ \E t \in Thr : /\ thread[t].op = "inc_webhook"
                          /\ thread[t].pc = "write"
                          /\ thread[t].key = <<k>>}

\* A thread calls inc_http, inc_webhook or observe_latency.
MetricsCall(t, c) ==
    /\ thread[t].pc = "idle"
    /\ thread' = [thread EXCEPT ![t] =
           [Resting EXCEPT !.pc = "acquire", !.op = MetricsCalls[c].op,
                           !.key = MetricsCalls[c].key]]
    /\ UNCHANGED <<table, writer, webhook_requests, http_requests, latency_buckets,
                   observed, req, insLog, lock, restarts>>

\* A collector whose  with self.lock  lets every thread in.
LockAcquireAnyway(t) ==
    /\ thread[t].pc = "acquire"
    /\ lock' = t
    /\ thread' = [thread EXCEPT ![t].pc = "read"]
    /\ UNCHANGED <<table, writer, webhook_requests, http_requests, latency_buckets,
                   observed, req, insLog, restarts>>

\* with self.lock: the thread enters when no thread holds the lock.
LockAcquire(t) ==
    /\ thread[t].pc = "acquire"
    /\ lock = 0
    /\ lock' = t
    /\ thread' = [thread EXCEPT ![t].pc = "read"]
    /\ UNCHANGED <<table, writer, webhook_requests, http_requests, latency_buckets,
                   observed, req, insLog, restarts>>

\* counter[key] += 1, the first half: the value is read (and the key is
\* made, if the dictionary had none).
CounterRead(t) ==
    /\ thread[t].pc = "read"
    /\ thread' = [thread EXCEPT ![t].pc = "write", ![t].read = CounterOf(thread[t])]
    /\ UNCHANGED <<table, writer, webhook_requests, http_requests, latency_buckets,
                   observed, req, insLog, lock, restarts>>

\* counter[key] += 1, the second half: the value read plus one is written.
CounterWrite(t) ==
    LET c == thread[t] IN
    /\ c.pc = "write"
    /\ http_requests' = IF c.op = "inc_http"
                        THEN [http_requests EXCEPT ![c.key] = c.read + 1]
                        ELSE http_requests
    /\ webhook_requests' = IF c.op = "inc_webhook"
                           THEN [webhook_requests EXCEPT ![c.key[1]] = c.read + 1]
                           ELSE webhook_requests
    /\ latency_buckets' = IF c.op = "observe_latency"
                          THEN [latency_buckets EXCEPT ![LatencyKey(c.key[1])] = c.read + 1]
                          ELSE latency_buckets
    /\ observed' = IF c.op = "observe_latency"
                   THEN [observed EXCEPT ![c.key[1]] = @ + 1]
                   ELSE observed
    /\ thread' = [thread EXCEPT ![t].pc = "release"]
    /\ UNCHANGED <<table, writer, req, insLog, lock, restarts>>

\* The end of the  with  block: the lock is released and the call returns.
LockRelease(t) ==
    /\ thread[t].pc = "release"
    /\ lock' = 0
    /\ thread' = [thread EXCEPT ![t].pc = "done"]
    /\ UNCHANGED <<table, writer, webhook_requests, http_requests, latency_buckets,
                   observed, req, insLog, restarts>>

\* render_prometheus, the start of  for ... in self.http_requests.items() :
\* the iterator notes the size of the dictionary.  The lock is not taken.
RenderBegin(t) ==
    /\ thread[t].pc = "idle"
    /\ thread' = [thread EXCEPT ![t] =
           [Resting EXCEPT !.pc = "http", !.op = "render_prometheus",
                           !.size = Cardinality(HttpKeys)]]
    /\ UNCHANGED <<table, writer, webhook_requests, http_requests, latency_buckets,
                   observed, req, insLog, lock, restarts>>

\* render_prometheus, the end of the loop over http_requests: when the
\* dictionary has changed its size since the loop began, the iterator
\* raises RuntimeError; otherwise the loop over webhook_requests begins.
RenderHttp(t) ==
    /\ thread[t].pc = "http"
    /\ thread' = IF Cardinality(HttpKeys) # thread[t].size
                 THEN [thread EXCEPT ![t].pc = "failed"]
                 ELSE [thread EXCEPT ![t].pc = "webhook",
                                     ![t].size = Cardinality(WebhookKeys)]
    /\ UNCHANGED <<table, writer, webhook_requests, http_requests, latency_buckets,
                   observed, req, insLog, lock, restarts>>

\* render_prometheus, the end of the loop over webhook_requests.
RenderWebhook(t) ==
    /\ thread[t].pc = "webhook"
    /\ thread' = IF Cardinality(WebhookKeys) # thread[t].size
                 THEN [thread EXCEPT ![t].pc = "failed"]
                 ELSE [thread EXCEPT ![t].pc = "latency"]
    /\ UNCHANGED <<table, writer, webhook_requests, http_requests, latency_buckets,
                   observed, req, insLog, lock, restarts>>

\* render_prometheus, the latency lines; the text is returned.
RenderLatency(t) ==
    /\ thread[t].pc = "latency"
    /\ thread' = [thread EXCEPT ![t].pc = "done",
                                ![t].read = RenderPrometheus(latency_buckets).count]
    /\ UNCHANGED <<table, writer, webhook_requests, http_requests, latency_buckets,
                   observed, req, insLog, lock, restarts>>

\* The collector alone, called from threads that run at once, each making
\* one call.
NextThreads ==
    \/ \E t \in Thr, c \in CallIds : MetricsCall(t, c)
    \/ \E t \in Thr : LockAcquire(t)
    \/ \E t \in Thr : CounterRead(t)
    \/ \E t \in Thr : CounterWrite(t)
    \/ \E t \in Thr : LockRelease(t)
    \/ \E t \in Thr : RenderBegin(t)
    \/ \E t \in Thr : RenderHttp(t)
    \/ \E t \in Thr : RenderWebhook(t)
    \/ \E t \in Thr : RenderLatency(t)

SpecThreads == Init /\ [][NextThreads]_vars

\* The threads that are inside render_prometheus, reading the counters.
Rendering == {t \in Thr : thread[t].pc \in {"http", "webhook", "latency"}}

\* C21: a thread that is inside render_prometheus, reading a counter
\* family, holds the lock the record operations take, and no call of
\* render_prometheus ends in a failure, whatever the other threads do.
C21_RenderSafe ==
    /\ \A t \in Rendering : lock = t
    /\ \A t \in Thr : thread[t].pc # "failed"

\* The threads whose call has written the counter of the key.
Written(op, key) ==
    {t \in Thr : /\ thread[t].op = op
                 /\ thread[t].pc \in {"release", "done"}
                 /\ thread[t].key = key}

\* The threads whose observe_latency has written the bucket.
WrittenBucket(b) ==
    {t \in Thr : /\ thread[t].op = "observe_latency"
                 /\ thread[t].pc \in {"release", "done"}
                 /\ LatencyKey(thread[t].key[1]) = b}

\* C22: with the collector called from threads that run at once, every
\* counter equals the number of calls that have written it: the counter of
\* a (path, status) pair the number of inc_http calls with that pair, the
\* counter of a result the number of inc_webhook calls with that result, a
\* bucket the number of observe_latency calls with a latency of that
\* bucket.  No increment is lost and no call changes another counter.
C22_NoLostUpdate ==
    /\ \A k \in DOMAIN http_requests :
         http_requests[k] = Cardinality(Written("inc_http", k))
    /\ \A k \in DOMAIN webhook_requests :
         webhook_requests[k] = Cardinality(Written("inc_webhook", <<k>>))
    /\ \A b \in Buckets : latency_buckets[b] = Cardinality(WrittenBucket(b))

\* C22 witness: one thread is between the read and the write of a counter
\* while another has called inc_http with the same pair and waits for the
\* lock.
C22_Witness ==
    \E t1, t2 \in Thr :
        /\ t1 # t2
        /\ thread[t1].op = "inc_http" /\ thread[t2].op = "inc_http"
        /\ thread[t1].key = thread[t2].key
        /\ thread[t1].pc = "write"
        /\ thread[t2].pc = "acquire"

\* The requests for /messages whose handler has ended.
ListEnded == {r \in Req : req[r].path = "/messages" /\ req[r].pc = "respond"}

\* What get_messages answers request r with in the step it handles it:
\* the page and total list_messages returns for the table as it is, when
\* limit is in 1..100 and offset is not negative, and 422 with nothing of
\* the store otherwise.
RangeChecked(r) ==
    LET query == Queries[req'[r].args]
        limit == IF "limit" \in query.given THEN query.limit ELSE 50
        offset == IF "offset" \in query.given THEN query.offset ELSE 0
    IN IF 1 <= limit /\ limit <= 100 /\ offset >= 0
       THEN /\ req'[r].status = 200
            /\ \E res \in ListResults(table,
                          [limit |-> limit, offset |-> offset, from |-> query.from,
                           since |-> query.since, q |-> query.q]) :
                   req'[r].data = res.data /\ req'[r].total = res.total
       ELSE /\ req'[r].status = 422
            /\ req'[r].detail \in {"limit out of range", "offset out of range"}
            /\ req'[r].data = <<>> /\ req'[r].total = 0

\* C23: every step in which a request for /messages is handled answers it
\* from the store exactly when its limit is in 1..100 and its offset is not
\* negative, where a query without limit has limit 50 and a query without
\* offset has offset 0; every other request is answered 422 and
\* list_messages is not called for it.
C23_RangeCheckedFirst ==
    [][\A r \in Req :
         (req[r].pc = "idle" /\ req'[r].path = "/messages") => RangeChecked(r)]_vars

\* C23 witness: with messages in the table, a request with limit 101 was
\* answered 422 and a request that gives no limit was answered 200.
C23_Witness ==
    /\ table # {}
    /\ \E r \in ListEnded : /\ Queries[req[r].args].limit = MaxLimit + 1
                            /\ req[r].status = 422
    /\ \E r \in ListEnded : /\ Queries[req[r].args].given = {}
                            /\ req[r].status = 200
                            /\ req[r].total > 0

\* Every counter of the collector is zero.
MetricsZero ==
    /\ \A o \in DOMAIN webhook_requests : webhook_requests[o] = 0
    /\ \A k \in DOMAIN http_requests : http_requests[k] = 0
    /\ \A b \in DOMAIN latency_buckets : latency_buckets[b] = 0

\* A message that an earlier run of the process has created is in the table
\* as it was inserted, and every insert of its message_id in a later run
\* has returned "duplicate".
EarlierRunsKept ==
    \A i \in 1..Len(insLog) : insLog[i].result = "created" =>
        /\ insLog[i].run < restarts => insLog[i].row \in table
        /\ \A j \in 1..Len(insLog) :
             (insLog[i].run < insLog[j].run
              /\ insLog[j].row.message_id = insLog[i].row.message_id)
             => insLog[j].result = "duplicate"

\* C24: a step in which the process is started again leaves every counter
\* and bucket of the collector at zero and the messages table with the rows
\* it had, and in every state a message created in an earlier run is still
\* in the table and every later delivery of its message_id was a duplicate.
C24_RestartKeepsTable ==
    [][/\ restarts' # restarts => (MetricsZero' /\ table' = table)
       /\ EarlierRunsKept']_vars

\* C24 witness: after a restart, a redelivery of a message created before
\* it was a duplicate; the collector has counted the duplicate and no
\* created.
C24_Witness ==
    /\ restarts = 1
    /\ \E i, j \in 1..Len(insLog) :
         /\ insLog[i].run = 0 /\ insLog[i].result = "created"
         /\ insLog[j].run = 1 /\ insLog[j].result = "duplicate"
         /\ insLog[j].row.message_id = insLog[i].row.message_id
    /\ webhook_requests["created"] = 0
    /\ webhook_requests["duplicate"] = 1

\* No request is in flight.
Quiescent == \A r \in Req : req[r].pc \in {"idle", "done"}

\* The sum of all values of a family of counters: the number of pairs of
\* a key and a place up to its counter.
Total(f) == Cardinality(UNION {{<<k, i>> : i \in 1..f[k]} : k \in DOMAIN f})

\* The number of requests counted by path and status, and the number of
\* latencies observed.
HttpTotal == Total(http_requests)
LatencyTotal == Total(latency_buckets)

\* The step ends request r: its latency is observed once and its (path,
\* status) pair counted once, with status 500 when its handler failed, and
\* no other counter of the two families changes.
CountedOnce(r) ==
    /\ req[r].outcome = "error" => req[r].status = 500
    /\ http_requests' = [http_requests EXCEPT ![<<req[r].path, req[r].status>>] = @ + 1]
    /\ LatencyTotal' = LatencyTotal + 1
    /\ \A b \in Buckets : latency_buckets'[b] >= latency_buckets[b]

\* C25: the step of the middleware that ends a request (also one whose
\* handler failed in the store, which is counted under status 500) makes
\* one latency observation and one increment of the request's (path,
\* status) counter; no other step changes these counters; and whenever no
\* request is in flight, the http request counters add up to the number of
\* latency observations.
C25_OneObservationPerRequest ==
    [][/\ \A r \in Req : (req[r].pc = "respond" /\ req'[r].pc = "done") => CountedOnce(r)
       /\ (\A r \in Req : ~(req[r].pc = "respond" /\ req'[r].pc = "done"))
          => (http_requests' = http_requests /\ latency_buckets' = latency_buckets)
       /\ (Quiescent => HttpTotal = LatencyTotal)']_vars

\* C25 witness: no request is in flight, two requests were served, one of
\* them a delivery whose insert failed, counted under /webhook and 500.
C25_Witness ==
    /\ Quiescent
    /\ http_requests[<<"/webhook", 500>>] = 1
    /\ HttpTotal = 2
    /\ LatencyTotal = 2

\* The counters of /webhook agree with the counters of the outcomes.
WebhookCountersAgree ==
    /\ http_requests[<<"/webhook", 200>>]
         = webhook_requests["created"] + webhook_requests["duplicate"]
    /\ http_requests[<<"/webhook", 401>>] = webhook_requests["invalid_signature"]
    /\ http_requests[<<"/webhook", 422>>] = webhook_requests["validation_error"]

\* C26: whenever no request is in flight, the /webhook counter of status
\* 200 equals created + duplicate, that of 401 equals invalid_signature and
\* that of 422 equals validation_error; and a delivery that fails in the
\* store changes no outcome counter, neither in the step in which it fails
\* nor in the step of the middleware that ends it, which adds one to the
\* /webhook counter of status 500.
C26_CountersConsistent ==
    [][/\ (Quiescent => WebhookCountersAgree)'
       /\ \A r \in Req :
            /\ (req[r].outcome # "error" /\ req'[r].outcome = "error")
               => webhook_requests' = webhook_requests
            /\ (req[r].outcome = "error" /\ req[r].pc = "respond" /\ req'[r].pc = "done")
               => /\ webhook_requests' = webhook_requests
                  /\ http_requests'[<<"/webhook", 500>>]
                       = http_requests[<<"/webhook", 500>>] + 1]_vars

\* C26 witness: no request is in flight; one delivery was created and
\* counted under 200, one failed in the store and is counted under 500 and
\* under no outcome.
C26_Witness ==
    /\ Quiescent
    /\ http_requests[<<"/webhook", 200>>] = 1
    /\ webhook_requests["created"] = 1
    /\ http_requests[<<"/webhook", 500>>] = 1
    /\ Total(webhook_requests) = 1

\* The rows an earlier run of the service has left: the model's clock reads
\* 0 for them only.
StartRows == {x \in table : x.created_at = CreatedAt(0)}

\* The insert_message calls of this run that have returned "created" or are
\* about to (the commit is done).
CreatedLogged == {i \in 1..Len(insLog) : insLog[i].result = "created"}
CreatedReturning == {r \in Req : req[r].pc = "close" /\ req[r].result = "created"}

\* C27: the webhook counter of created is at most the number of rows of the
\* messages table, and the rows inserted in this run are the rows of the
\* insert_message calls that returned "created", one call for each row: a
\* row is created once, by the first delivery of its message_id that the
\* store accepts.
C27_CreatedOnce ==
    /\ webhook_requests["created"] <= Cardinality(table)
    /\ webhook_requests["created"] = Cardinality(CreatedLogged)
    /\ table \ StartRows
         = {insLog[i].row : i \in CreatedLogged} \cup {req[r].row : r \in CreatedReturning}
    /\ Cardinality(table \ StartRows)
         = Cardinality(CreatedLogged) + Cardinality(CreatedReturning)
    /\ \A i \in CreatedLogged : \A j \in 1..Len(insLog) :
         (j < i /\ insLog[j].row.message_id = insLog[i].row.message_id)
         => insLog[j].result # "created"

\* C27 witness: two messages were created in a table that was empty: one
\* insert has returned and is counted, the other is about to return, so
\* the counter is 1 and the table has 2 rows.
C27_Witness ==
    /\ webhook_requests["created"] = 1
    /\ Cardinality(table) = 2
    /\ StartRows = {}
    /\ CreatedReturning # {}

\* C28: a step in which insert_message comes to the result "duplicate" is
\* taken with a row of the given message_id in the table, and leaves the
\* table as it is; a step in which the store fails (the database stays
\* locked, or is unavailable) gives the request neither result of
\* insert_message and counts no outcome.
C28_DuplicateOnlyForKey ==
    [][\A r \in Req :
         /\ (req[r].result # "duplicate" /\ req'[r].result = "duplicate")
            => /\ \E x \in table : x.message_id = req[r].row.message_id
               /\ table' = table
         /\ (req[r].outcome # "error" /\ req'[r].outcome = "error")
            => /\ req'[r].result \notin {"created", "duplicate"}
               /\ webhook_requests' = webhook_requests]_vars

\* C28 witness: one delivery has the result "duplicate", for a message_id
\* that is in the table, while another delivery has failed in the store
\* with no result.
C28_Witness ==
    \E r1, r2 \in Req :
        /\ req[r1].result = "duplicate" /\ req[r1].pc = "close"
        /\ \E x \in table : x.message_id = req[r1].row.message_id
        /\ req[r2].path = "/webhook" /\ req[r2].outcome = "error"
        /\ req[r2].result = ""

\* The filters of list_messages.
Filters == {"from", "since", "q"}

\* The arguments with one filter set to a value.
WithFilter(args, f, v) ==
    CASE f = "from"  -> [args EXCEPT !.from = v]
      [] f = "since" -> [args EXCEPT !.since = v]
      [] OTHER       -> [args EXCEPT !.q = v]

\* For the table as it is, every valid query and each of the filters from,
\* since and q, list returns the same pages and totals with the filter
\* given as the empty string as with the filter left out, and the same
\* with all three given as empty strings as with all three left out.
EmptyIsAbsent ==
    \A a \in ValidArgs :
        /\ \A f \in Filters :
             ListResults(table, WithFilter(ListArgs[a], f, <<>>))
               = ListResults(table, WithFilter(ListArgs[a], f, NULL))
        /\ ListResults(table, [ListArgs[a] EXCEPT !.from = <<>>, !.since = <<>>, !.q = <<>>])
             = ListResults(table, [ListArgs[a] EXCEPT !.from = NULL, !.since = NULL, !.q = NULL])

\* C29: on every table the service comes to have (the table before and
\* the table after every step that changes it), a filter given to list as
\* the empty string gives the same pages and totals as the filter left
\* out.
C29_EmptyFilterIsAbsent ==
    [][table' # table => (EmptyIsAbsent /\ EmptyIsAbsent')]_vars

\* C29 witness: a list response to the query with from, since and q given
\* as empty strings, limit 1 and offset 1 counts all three stored messages
\* and holds the second of them.
C29_Witness ==
    \E r \in Listed :
        /\ Queries[req[r].args].from = <<>>
        /\ Queries[req[r].args].since = <<>>
        /\ Queries[req[r].args].q = <<>>
        /\ Cardinality(table) = 3
        /\ req[r].total = 3
        /\ Len(req[r].data) = 1
        /\ \E res \in ListResults(table, [ListArgs[req[r].args] EXCEPT
                                            !.from = NULL, !.since = NULL, !.q = NULL]) :
              res.data = req[r].data /\ res.total = req[r].total

=============================================================================
